---- MODULE Spec2Model ----
(***************************************************************************)
(* A model of easi-translate.py: the lazy JSON walker traverse_json, the   *)
(* page lookup get_page and the per-file loop of main.                     *)
(*                                                                         *)
(* Strings are sequences of Unicode code points.  A JSON value is a record *)
(* of one shape: t is its type, s the code points of a string (or the one  *)
(* number of a num), keys the keys of a dict in insertion order, items the *)
(* elements of a list or the values of a dict.  A container is named by    *)
(* its path from the document root (a sequence of 1-based positions), a    *)
(* (key, container) pair by the container's path and the position in it.   *)
(***************************************************************************)
EXTENDS Integers, Sequences, FiniteSets, TLC

\* ------------------------------------------------------------------ bounds
MaxFiles == 2

MaxDeaths == 1

\* ------------------------------------------------------------- JSON values
JStr(s) == [t |-> "str", s |-> s, keys |-> <<>>, items |-> <<>>]

JNum(n) == [t |-> "num", s |-> <<n>>, keys |-> <<>>, items |-> <<>>]

JList(items) == [t |-> "list", s |-> <<>>, keys |-> <<>>, items |-> items]

JDict(keys, vals) == [t |-> "dict", s |-> <<>>, keys |-> keys, items |-> vals]

JNull == [t |-> "null", s |-> <<>>, keys |-> <<>>, items |-> <<>>]

IsContainer(v) == v.t \in {"list", "dict"}

\* d[key] of a dict; JNull stands for a missing key
DictGet(d, key) ==
    IF d.t = "dict" /\ \E k \in 1..Len(d.keys) : d.keys[k] = key
    THEN d.items[CHOOSE k \in 1..Len(d.keys) : d.keys[k] = key]
    ELSE JNull

DictHas(d, key) == \E k \in 1..Len(d.keys) : d.keys[k] = key

\* d[key] = v of a dict: an existing key keeps its place, a new key is appended
DictPut(d, key, v) ==
    IF DictHas(d, key)
    THEN [d EXCEPT !.items[CHOOSE k \in 1..Len(d.keys) : d.keys[k] = key] = v]
    ELSE [d EXCEPT !.keys = Append(@, key), !.items = Append(@, v)]

RECURSIVE Get(_, _)
\* the value at a path of a document
Get(doc, path) ==
    IF path = <<>> THEN doc ELSE Get(doc.items[Head(path)], Tail(path))

RECURSIVE Set(_, _, _)
\* the document after context[key] = v at the position a path names
Set(doc, path, v) ==
    IF path = <<>> THEN v
    ELSE [doc EXCEPT !.items[Head(path)] = Set(@, Tail(path), v)]

\* ----------------------------------------------------------------- strings
ASCII_BUT_UNICODE == {8216, 65288, 65289, 65292}

is_ascii(s) == \A k \in 1..Len(s) : s[k] < 128 \/ s[k] \in ASCII_BUT_UNICODE

\* strip_ascii had it no allow-list test
StripAsciiNoAllowList(s) == SelectSeq(s, LAMBDA c : c > 128)

strip_ascii(s) == SelectSeq(s, LAMBDA c : c > 128 /\ c \notin ASCII_BUT_UNICODE)

\* the characters str.strip() removes (str.isspace)
IsSpace(c) ==
    \/ c \in 9..13
    \/ c \in 28..32
    \/ c \in {133, 160, 5760, 8232, 8233, 8239, 8287, 12288}
    \/ c \in 8192..8202

RECURSIVE LStrip(_)
LStrip(s) == IF s # <<>> /\ IsSpace(Head(s)) THEN LStrip(Tail(s)) ELSE s

RECURSIVE RStrip(_)
RStrip(s) ==
    IF s # <<>> /\ IsSpace(s[Len(s)]) THEN RStrip(SubSeq(s, 1, Len(s) - 1)) ELSE s

\* str.strip()
Strip(s) == RStrip(LStrip(s))

valid_translate_value(value) == value.t = "str" /\ ~is_ascii(value.s)

\* ---------------------------------------------------------------- ---------
\* traverse_json, a generator: its state is the stack of its suspended frames.
\* A frame iterates the container at path; i elements have been fetched, x is
\* the element fetched last, and pending says that x has been offered to the
\* predicate (and yielded if selected) but not yet descended into.
NewFrame(path) == [path |-> path, i |-> 0, x |-> JNull, pending |-> FALSE]

\* the generator traverse_json(doc, ...) before its first resumption
NewGen(doc) == IF IsContainer(doc) THEN <<NewFrame(<<>>)>> ELSE <<>>

\* the value the recursive call of a frame descends into
\* a walker that reads the element again after the yield, where the code keeps
\* its local
DescendReread(doc, frame) == Get(doc, Append(frame.path, frame.i))

DescendTarget(doc, frame) == frame.x

RECURSIVE Resume(_, _)
\* Resume the generator on the document as it is now: run to the next yield
\* (done = FALSE; value, path and pos are the triple) or to exhaustion.
Resume(doc, stack) ==
    IF stack = <<>>
    THEN [done |-> TRUE, stack |-> <<>>, value |-> JNull, path |-> <<>>, pos |-> 0]
    ELSE LET n == Len(stack)
             top == stack[n]
             below == SubSeq(stack, 1, n - 1)
         IN IF top.pending
            THEN LET rest == Append(below, [top EXCEPT !.pending = FALSE])
                 IN IF IsContainer(DescendTarget(doc, top))
                    THEN Resume(doc, Append(rest, NewFrame(Append(top.path, top.i))))
                    ELSE Resume(doc, rest)
            ELSE LET c == Get(doc, top.path)
                 IN IF top.i >= Len(c.items)
                    THEN Resume(doc, below)
                    ELSE LET x == c.items[top.i + 1]
                             next == Append(below, [top EXCEPT !.i = top.i + 1,
                                                               !.x = x,
                                                               !.pending = TRUE])
                         IN IF valid_translate_value(x)
                            THEN [done |-> FALSE, stack |-> next, value |-> x,
                                  path |-> top.path, pos |-> top.i + 1]
                            ELSE Resume(doc, next)

RECURSIVE Drain(_, _, _)
\* every triple a generator yields when nothing changes the document
Drain(doc, stack, acc) ==
    LET r == Resume(doc, stack)
    IN IF r.done THEN acc
       ELSE Drain(doc, r.stack,
                  Append(acc, [value |-> r.value, path |-> r.path, pos |-> r.pos]))

traverse_json(doc) == Drain(doc, NewGen(doc), <<>>)

\* ---------------------------------------------------------------- get_page
None == [isNone |-> TRUE, results |-> <<>>]

Result(results) == [isNone |-> FALSE, results |-> results]

\* what a driver call does: it succeeds, raises InvalidSessionIdException, or
\* raises another exception; "none" marks a call that is never made
Outcomes == {"ok", "invalid", "error"}

\* the text or attribute of the element the k-th xpath of a lookup finds
ElementText(tag, k) == JStr(<<tag, 48 + k>>)

RECURSIVE FindAllNoneOnError(_, _, _, _)
\* get_page had it one handler for every exception of find_element
FindAllNoneOnError(tag, k, findOuts, results) ==
    IF k > Len(findOuts) THEN Result(results)
    ELSE IF findOuts[k] = "ok"
         THEN FindAllNoneOnError(tag, k + 1, findOuts, Append(results, ElementText(tag, k)))
         ELSE None

RECURSIVE FindAll(_, _, _, _)
\* the loop over xpaths from the k-th on
FindAll(tag, k, findOuts, results) ==
    IF k > Len(findOuts) THEN Result(results)
    ELSE IF findOuts[k] = "invalid" THEN None
         ELSE IF findOuts[k] = "ok"
              THEN FindAll(tag, k + 1, findOuts, Append(results, ElementText(tag, k)))
              ELSE FindAll(tag, k + 1, findOuts, results)

GetPageNoneOnError(tag, getOut, findOuts) ==
    IF getOut = "ok" THEN FindAllNoneOnError(tag, 1, findOuts, <<>>) ELSE Result(<<>>)

\* get_page: getOut is what driver.get does, findOuts what find_element does
\* for each xpath
get_page(tag, getOut, findOuts) ==
    IF getOut = "ok" THEN FindAll(tag, 1, findOuts, <<>>) ELSE Result(<<>>)

\* the calls one get_page makes, given what each does: nothing follows a
\* failed driver.get, nothing follows an InvalidSessionIdException
CallShape(getOut, findOuts) ==
    /\ getOut \in Outcomes
    /\ \A k \in 1..Len(findOuts) :
          IF getOut = "ok" /\ \A m \in 1..(k - 1) : findOuts[m] \in {"ok", "error"}
          THEN findOuts[k] \in Outcomes
          ELSE findOuts[k] = "none"

SessionInvalidRaised(getOut, findOuts) ==
    getOut = "invalid" \/ \E k \in 1..Len(findOuts) : findOuts[k] = "invalid"

\* -------------------------------------------------------------------- pinyin
\* pinyin.get(s, delimiter=" ") of the pinyin package: the reading of each
\* character it knows, the character itself otherwise, joined by spaces
Reading(c) ==
    IF c = 20320 THEN <<110, 464>>
    ELSE IF c = 22909 THEN <<104, 462, 111>>
    ELSE IF c = 28900 THEN <<107, 462, 111>>
    ELSE IF c = 40493 THEN <<121, 257>>
    ELSE IF c = 24215 THEN <<100, 105, 224, 110>>
    ELSE <<c>>

RECURSIVE pinyin_get(_)
pinyin_get(s) ==
    IF s = <<>> THEN <<>>
    ELSE IF Len(s) = 1 THEN Reading(s[1])
    ELSE Reading(s[1]) \o <<32>> \o pinyin_get(Tail(s))

\* ------------------------------------------------------------------ Records
\* a Record built from the projection of the value, where the code stores the
\* value
RecordKeepsProjection(value) == JDict(<<"value">>, <<JStr(strip_ascii(value.s))>>)

\* context[key] = { "value": value }
NewRecord(value) == JDict(<<"value">>, <<value>>)

\* the pinyin projection of a value and the Record with its pinyin, if any
PinyinProjection(value) == Strip(strip_ascii(value.s))

WithPinyin(rec, value) ==
    IF Len(PinyinProjection(value)) > 0
    THEN DictPut(rec, "pinyin", JStr(pinyin_get(strip_ascii(value.s))))
    ELSE rec

\* "price" in context
PriceStr == JStr(<<112, 114, 105, 99, 101>>)

PriceInContext(context) ==
    IF context.t = "dict" THEN DictHas(context, "price")
    ELSE \E k \in 1..Len(context.items) : context.items[k] = PriceStr

\* the fields the two lookups add to a Record
WithLookups(rec, search, img_search) ==
    LET r1 == IF Len(search.results) > 0
              THEN DictPut(rec, "knowledge_graph", search.results[1]) ELSE rec
    IN IF Len(img_search.results) > 0
       THEN DictPut(r1, "google_image", img_search.results[1]) ELSE r1

\* the range test off by one
HasTranslationOffByOne(resp, jj) == ~resp.isNone /\ jj + 1 < Len(resp.results)

\* translation_response and j < len(translation_response.translations)
HasTranslation(resp, jj) == ~resp.isNone /\ jj < Len(resp.results)

WithTranslation(rec, resp, jj) ==
    IF HasTranslation(resp, jj)
    THEN DictPut(rec, "translation", resp.results[jj + 1]) ELSE rec

\* ---------------------------------------------------------------- shop_infos
\* An entry of shop_infos holds a reference to a shop_info object.  While its
\* menu is the document being processed the object is part of menu_json
\* (live = TRUE); once menu_json is rebound nothing can change it any more
\* and the entry holds the object as it was left (obj).
ShopInfoPath(doc) ==
    LET d == CHOOSE k \in 1..Len(doc.keys) : doc.keys[k] = "data"
        data == doc.items[d]
    IN <<d, CHOOSE k \in 1..Len(data.keys) : data.keys[k] = "shop_info">>

ShopInfoOf(doc) == Get(doc, ShopInfoPath(doc))

Deref(entry, doc) == IF entry.live THEN ShopInfoOf(doc) ELSE entry.obj

\* the entries once menu_json stops referring to doc
Released(infos, doc) ==
    [k \in 1..Len(infos) |-> [id |-> infos[k].id, live |-> FALSE,
                              obj |-> Deref(infos[k], doc)]]

HasId(infos, id) == \E k \in 1..Len(infos) : infos[k].id = id

\* an aggregate that stores a copy of the shop_info, where the code stores the
\* object
PutCopy(infos, id, shop_info) ==
    IF HasId(infos, id)
    THEN [k \in 1..Len(infos) |->
             IF infos[k].id = id THEN [id |-> id, live |-> FALSE, obj |-> shop_info]
             ELSE infos[k]]
    ELSE Append(infos, [id |-> id, live |-> FALSE, obj |-> shop_info])

\* shop_infos[id] = shop_info, the shop_info of the document just loaded; obj
\* of a live entry is the object as loaded and is not read
Put(infos, id, shop_info) ==
    IF HasId(infos, id)
    THEN [k \in 1..Len(infos) |->
             IF infos[k].id = id THEN [id |-> id, live |-> TRUE, obj |-> shop_info]
             ELSE infos[k]]
    ELSE Append(infos, [id |-> id, live |-> TRUE, obj |-> shop_info])

\* json.dumps(shop_infos)
Dump(infos, doc) ==
    [k \in 1..Len(infos) |-> [id |-> infos[k].id, val |-> Deref(infos[k], doc)]]

\* -------------------------------------------------------------- menu files
\* {"data": {"shop_info": {"id": "s1"}, "items": [{"name": "烤鸭", "price": 88}]}}
DocDuck ==
    JDict(<<"data">>, <<
        JDict(<<"shop_info", "items">>, <<
            JDict(<<"id">>, <<JStr(<<115, 49>>)>>),
            JList(<<JDict(<<"name", "price">>, <<JStr(<<28900, 40493>>), JNum(88)>>)>>)
        >>)
    >>)

\* {"data": {"shop_info": {"id": "s1", "name": "你"},
\*           "items": ["你", {"stock": 8, "name": "你好 (hi)"}]}}
DocDup ==
    JDict(<<"data">>, <<
        JDict(<<"shop_info", "items">>, <<
            JDict(<<"id", "name">>, <<JStr(<<115, 49>>), JStr(<<20320>>)>>),
            JList(<<JStr(<<20320>>),
                    JDict(<<"stock", "name">>,
                          <<JNum(8), JStr(<<20320, 22909, 32, 40, 104, 105, 41>>)>>)>>)
        >>)
    >>)

\* {"data": {"items": ["（）、", "　（", "（），"], "shop_info": {"id": "店"}}}
DocPunct ==
    JDict(<<"data">>, <<
        JDict(<<"items", "shop_info">>, <<
            JList(<<JStr(<<65288, 65289, 12289>>),
                    JStr(<<12288, 65288>>),
                    JStr(<<65288, 65289, 65292>>)>>),
            JDict(<<"id">>, <<JStr(<<24215>>)>>)
        >>)
    >>)

\* a file json.load() does not parse
BadFile == JNull

FileKinds == {DocDuck, DocDup, DocPunct, BadFile}

\* the k-th translation of a response of the translation service
TranslatedText(k) == JStr(<<84, 48 + k>>)

\* -------------------------------------------------------------------- state
VARIABLES
    menus,                  \* the files glob found, by content, in order
    i,                      \* the files the loop has taken
    pc,                     \* the position of main
    menu_json,              \* the document being processed
    shop_infos,             \* the aggregate: entries in insertion order
    all_translation_values,
    translation_response,
    gen,                    \* the generator of the mutation pass
    j,                      \* the enumerate counter of the mutation pass
    vkc,                    \* the triple the mutation pass is working on
    google_search,
    google_img_search,
    driver,                 \* the browser session, by the number of its creation
    sessionValid,           \* whether the browser still knows that session
    deaths,                 \* the sessions that have died
    page_outcome,           \* what the driver calls of the last get_page did
    collected_pos,          \* the positions the collection pass yielded
    visited_pos,            \* the positions the mutation pass has yielded
    status,                 \* the fate of each file
    requests,               \* the translation requests made for each file
    failed_requests,        \* the files whose translation request failed
    out_shop,               \* shop_info as it stood in each processed document
    index_attempts,         \* the attempts to open index.json
    index_json,             \* what index.json holds
    driver_closed           \* driver.close() has returned

vars == <<menus, i, pc, menu_json, shop_infos, all_translation_values,
          translation_response, gen, j, vkc, google_search, google_img_search,
          driver, sessionValid, deaths, page_outcome, collected_pos, visited_pos,
          status, requests, failed_requests, out_shop, index_attempts, index_json,
          driver_closed>>

NoTriple == [value |-> JNull, path |-> <<>>, pos |-> 0]

NoOutcome == [lookup |-> "none", get |-> "none", finds |-> <<>>]

Positions(triples) == [k \in 1..Len(triples) |-> Append(triples[k].path, triples[k].pos)]

Values(triples) == [k \in 1..Len(triples) |-> triples[k].value]

\* the state when the loop over menus is about to start (lines 94-98)
Init ==
    /\ menus \in UNION {[1..n -> FileKinds] : n \in 0..MaxFiles}
    /\ i = 0
    /\ pc = "load"
    /\ menu_json = JNull
    /\ shop_infos = <<>>
    /\ all_translation_values = <<>>
    /\ translation_response = None
    /\ gen = <<>>
    /\ j = 0
    /\ vkc = NoTriple
    /\ google_search = None
    /\ google_img_search = None
    /\ driver = 1
    /\ sessionValid = TRUE
    /\ deaths = 0
    /\ page_outcome = NoOutcome
    /\ collected_pos = <<>>
    /\ visited_pos = <<>>
    /\ status = [f \in 1..Len(menus) |-> "pending"]
    /\ requests = [f \in 1..Len(menus) |-> 0]
    /\ failed_requests = {}
    /\ out_shop = [f \in 1..Len(menus) |-> JNull]
    /\ index_attempts = 0
    /\ index_json = [written |-> FALSE, entries |-> <<>>]
    /\ driver_closed = FALSE

\* ------------------------------------------------------------------ actions
\* The top of the loop for the next file (lines 99-110): load and parse it,
\* record its shop_info, run the collection pass.  json.load is outside any
\* try: a file that does not parse ends the run with an uncaught exception.
LoadFile ==
    /\ pc = "load"
    /\ i < Len(menus)
    /\ i' = i + 1
    /\ IF menus[i + 1] = BadFile
       THEN /\ pc' = "crashed"
            /\ status' = [status EXCEPT ![i + 1] = "parsefail"]
            /\ UNCHANGED <<menu_json, shop_infos, all_translation_values,
                           collected_pos, visited_pos>>
       ELSE LET doc == menus[i + 1]
                triples == traverse_json(doc)
            IN /\ menu_json' = doc
               /\ shop_infos' = Put(Released(shop_infos, menu_json),
                                    DictGet(ShopInfoOf(doc), "id"), ShopInfoOf(doc))
               /\ all_translation_values' = Values(triples)
               /\ collected_pos' = Positions(triples)
               /\ visited_pos' = <<>>
               /\ status' = [status EXCEPT ![i + 1] = "loaded"]
               /\ pc' = "translate"
    /\ UNCHANGED <<menus, translation_response, gen, j, vkc, google_search,
                   google_img_search, driver, sessionValid, deaths, page_outcome,
                   requests, failed_requests, out_shop, index_attempts, index_json,
                   driver_closed>>

\* The batch translation request (lines 112-122) and the creation of the
\* mutation pass's generator (line 124).
Translate ==
    /\ pc = "translate"
    /\ \/ /\ translation_response' = None
          /\ failed_requests' = failed_requests \cup {i}
       \/ /\ \E n \in 0..Len(all_translation_values) :
                translation_response' = Result([k \in 1..n |-> TranslatedText(k)])
          /\ UNCHANGED failed_requests
    /\ requests' = [requests EXCEPT ![i] = @ + 1]
    /\ gen' = NewGen(menu_json)
    /\ j' = 0
    /\ pc' = "mut"
    /\ UNCHANGED <<menus, i, menu_json, shop_infos, all_translation_values, vkc,
                   google_search, google_img_search, driver, sessionValid, deaths,
                   page_outcome, collected_pos, visited_pos, status, out_shop,
                   index_attempts, index_json, driver_closed>>

\* One turn of the mutation loop up to the price test (lines 124-138), and to
\* its end (lines 163-164) when the container has no price.
MutStep ==
    /\ pc = "mut"
    /\ LET r == Resume(menu_json, gen)
       IN IF r.done
          THEN /\ pc' = "write"
               /\ gen' = <<>>
               /\ UNCHANGED <<menu_json, j, vkc, visited_pos, google_search>>
          ELSE LET at == Append(r.path, r.pos)
                   rec == WithPinyin(NewRecord(r.value), r.value)
                   doc1 == Set(menu_json, at, rec)
               IN /\ gen' = r.stack
                  /\ visited_pos' = Append(visited_pos, at)
                  /\ IF PriceInContext(Get(doc1, r.path))
                     THEN /\ menu_json' = doc1
                          /\ vkc' = [value |-> r.value, path |-> r.path, pos |-> r.pos]
                          /\ google_search' = None
                          /\ pc' = "kno"
                          /\ j' = j
                     ELSE /\ menu_json' = Set(doc1, at,
                                              WithTranslation(rec, translation_response, j))
                          /\ j' = j + 1
                          /\ pc' = "mut"
                          /\ UNCHANGED <<vkc, google_search>>
    /\ UNCHANGED <<menus, i, shop_infos, all_translation_values, translation_response,
                   google_img_search, driver, sessionValid, deaths, page_outcome,
                   collected_pos, status, requests, failed_requests, out_shop, index_attempts,
                   index_json, driver_closed>>

\* What the browser does during one get_page with n xpaths: a session the
\* browser no longer knows fails driver.get with InvalidSessionIdException; a
\* live session may die at any call, at most MaxDeaths times in a run.
BrowserDoes(getOut, findOuts) ==
    /\ CallShape(getOut, findOuts)
    /\ ~sessionValid => getOut = "invalid"
    /\ (sessionValid /\ SessionInvalidRaised(getOut, findOuts)) => deaths < MaxDeaths

\* One turn of the knowledge-panel retry loop (lines 139-147).
KnoLookup ==
    /\ pc = "kno"
    /\ \E getOut \in Outcomes, findOuts \in [1..2 -> Outcomes \cup {"none"}] :
          /\ BrowserDoes(getOut, findOuts)
          /\ LET res == get_page(75, getOut, findOuts)
                 died == sessionValid /\ SessionInvalidRaised(getOut, findOuts)
             IN /\ google_search' = res
                /\ page_outcome' = [lookup |-> "kno", get |-> getOut, finds |-> findOuts]
                /\ deaths' = IF died THEN deaths + 1 ELSE deaths
                /\ IF res.isNone
                   THEN /\ driver' = driver + 1
                        /\ sessionValid' = TRUE
                        /\ pc' = "kno"
                        /\ UNCHANGED google_img_search
                   ELSE /\ driver' = driver
                        /\ sessionValid' = (sessionValid /\ ~died)
                        /\ google_img_search' = None
                        /\ pc' = "img"
    /\ UNCHANGED <<menus, i, menu_json, shop_infos, all_translation_values,
                   translation_response, gen, j, vkc, collected_pos, visited_pos,
                   status, requests, failed_requests, out_shop, index_attempts, index_json,
                   driver_closed>>

\* One turn of the image retry loop (lines 148-153): the test that guards the
\* new session reads google_search, which is never None here.
ImgLookup ==
    /\ pc = "img"
    /\ \E getOut \in Outcomes, findOuts \in [1..1 -> Outcomes \cup {"none"}] :
          /\ BrowserDoes(getOut, findOuts)
          /\ LET res == get_page(73, getOut, findOuts)
                 died == sessionValid /\ SessionInvalidRaised(getOut, findOuts)
             IN /\ google_img_search' = res
                /\ page_outcome' = [lookup |-> "img", get |-> getOut, finds |-> findOuts]
                /\ deaths' = IF died THEN deaths + 1 ELSE deaths
                /\ IF google_search.isNone
                   THEN /\ driver' = driver + 1
                        /\ sessionValid' = TRUE
                   ELSE /\ driver' = driver
                        /\ sessionValid' = (sessionValid /\ ~died)
                /\ pc' = IF res.isNone THEN "img" ELSE "attach"
    /\ UNCHANGED <<menus, i, menu_json, shop_infos, all_translation_values,
                   translation_response, gen, j, vkc, google_search, collected_pos,
                   visited_pos, status, requests, failed_requests, out_shop, index_attempts,
                   index_json, driver_closed>>

\* The end of a turn for a priced item (lines 155-164).  vkc, google_search
\* and google_img_search are not read again before they are assigned, and
\* are cleared here.
Attach ==
    /\ pc = "attach"
    /\ LET at == Append(vkc.path, vkc.pos)
           rec == WithLookups(Get(menu_json, at), google_search, google_img_search)
       IN menu_json' = Set(menu_json, at, WithTranslation(rec, translation_response, j))
    /\ j' = j + 1
    /\ vkc' = NoTriple
    /\ google_search' = None
    /\ google_img_search' = None
    /\ page_outcome' = NoOutcome
    /\ pc' = "mut"
    /\ UNCHANGED <<menus, i, shop_infos, all_translation_values, translation_response,
                   gen, driver, sessionValid, deaths, collected_pos, visited_pos,
                   status, requests, failed_requests, out_shop, index_attempts, index_json,
                   driver_closed>>

\* the write without its try: a failure ends the run
WriteOutputUncaught ==
    /\ pc = "write"
    /\ \E ok \in BOOLEAN :
          /\ status' = [status EXCEPT ![i] = IF ok THEN "written" ELSE "writefail"]
          /\ pc' = IF ok THEN "load" ELSE "crashed"
    /\ out_shop' = [out_shop EXCEPT ![i] = ShopInfoOf(menu_json)]
    /\ UNCHANGED <<menus, i, menu_json, shop_infos, all_translation_values,
                   translation_response, gen, j, vkc, google_search, google_img_search,
                   driver, sessionValid, deaths, page_outcome, collected_pos,
                   visited_pos, requests, failed_requests, index_attempts, index_json,
                   driver_closed>>

\* The write of the processed document (lines 165-169).
WriteOutput ==
    /\ pc = "write"
    /\ \E ok \in BOOLEAN :
          status' = [status EXCEPT ![i] = IF ok THEN "written" ELSE "writefail"]
    /\ out_shop' = [out_shop EXCEPT ![i] = ShopInfoOf(menu_json)]
    /\ pc' = "load"
    /\ UNCHANGED <<menus, i, menu_json, shop_infos, all_translation_values,
                   translation_response, gen, j, vkc, google_search, google_img_search,
                   driver, sessionValid, deaths, page_outcome, collected_pos,
                   visited_pos, requests, failed_requests, index_attempts, index_json, driver_closed>>

\* The write of index.json once the loop has ended (lines 171-175).  With no
\* file, path is unbound: the NameError of line 172 is caught, the one of the
\* handler's own message (line 175) is not.
WriteIndex ==
    /\ pc = "load"
    /\ i = Len(menus)
    /\ IF i = 0
       THEN /\ pc' = "crashed"
            /\ UNCHANGED <<index_attempts, index_json>>
       ELSE /\ index_attempts' = index_attempts + 1
            /\ \E ok \in BOOLEAN :
                  index_json' = IF ok
                                THEN [written |-> TRUE,
                                      entries |-> Dump(shop_infos, menu_json)]
                                ELSE index_json
            /\ pc' = "close"
    /\ UNCHANGED <<menus, i, menu_json, shop_infos, all_translation_values,
                   translation_response, gen, j, vkc, google_search, google_img_search,
                   driver, sessionValid, deaths, page_outcome, collected_pos,
                   visited_pos, status, requests, failed_requests, out_shop, driver_closed>>

\* driver.close() (line 177); on a session the browser no longer knows it
\* raises, and the run ends with that exception.
Close ==
    /\ pc = "close"
    /\ driver_closed' = sessionValid
    /\ pc' = IF sessionValid THEN "done" ELSE "crashed"
    /\ UNCHANGED <<menus, i, menu_json, shop_infos, all_translation_values,
                   translation_response, gen, j, vkc, google_search, google_img_search,
                   driver, sessionValid, deaths, page_outcome, collected_pos,
                   visited_pos, status, requests, failed_requests, out_shop, index_attempts, index_json>>

Next ==
    \/ LoadFile
    \/ Translate
    \/ MutStep
    \/ KnoLookup
    \/ ImgLookup
    \/ Attach
    \/ WriteOutput
    \/ WriteIndex
    \/ Close

Spec == Init /\ [][Next]_vars

\* ------------------------------------------------------------------- claims
InMutation == pc \in {"mut", "kno", "img", "attach", "write"}

Terminal == pc \in {"done", "crashed"}

AllParse == \A f \in 1..Len(menus) : menus[f] # BadFile

\* the Record the mutation pass put at its k-th position
RecordAt(k) == Get(menu_json, visited_pos[k])

Field(rec, key) == DictGet(rec, key)

\* C1: once the mutation pass of a document has ended, the j-th visited leaf
\* is a Record whose value is the j-th collected string and whose translation,
\* when present, is the j-th translation returned: attachment is by position.
C1_PositionalAttachment ==
    pc = "write" =>
        /\ Len(visited_pos) = Len(all_translation_values)
        /\ \A k \in 1..Len(visited_pos) :
              /\ k <= Len(all_translation_values)
              /\ RecordAt(k).t = "dict"
              /\ DictHas(RecordAt(k), "value")
              /\ Field(RecordAt(k), "value") = all_translation_values[k]
              /\ DictHas(RecordAt(k), "translation") =>
                    /\ k <= Len(translation_response.results)
                    /\ Field(RecordAt(k), "translation") = translation_response.results[k]

\* two leaves with the same string have received different translations
C1_Witness ==
    /\ pc = "write"
    /\ \E a, b \in 1..Len(visited_pos) :
          /\ a # b
          /\ all_translation_values[a] = all_translation_values[b]
          /\ DictHas(RecordAt(a), "translation")
          /\ DictHas(RecordAt(b), "translation")
          /\ Field(RecordAt(a), "translation") # Field(RecordAt(b), "translation")

\* C4: the mutation pass yields the positions of the collection pass, in the
\* same order, each once, and none inside a Record it has been handed back.
C4_SamePositions ==
    InMutation =>
        /\ Len(visited_pos) <= Len(collected_pos)
        /\ \A k \in 1..Len(visited_pos) :
              k <= Len(collected_pos) => visited_pos[k] = collected_pos[k]
        /\ \A a, b \in 1..Len(visited_pos) : a # b => visited_pos[a] # visited_pos[b]
        /\ pc = "write" => visited_pos = collected_pos

\* a pass over three leaves, in a dict and in a list, has ended with every
\* leaf replaced by a Record that holds translatable strings itself
C4_Witness ==
    /\ pc = "write"
    /\ Len(visited_pos) = 3
    /\ \A k \in 1..3 :
          /\ DictHas(RecordAt(k), "value")
          /\ valid_translate_value(Field(RecordAt(k), "value"))
    /\ \E k \in 1..3 : Get(menu_json, SubSeq(visited_pos[k], 1, Len(visited_pos[k]) - 1)).t = "list"

\* C6: a Record carries a translation exactly when the file's request
\* succeeded and the Record's position is below the number of translations
\* returned; a file issues one request and no more, whether it fails or not,
\* and after a failed request every leaf is still replaced and the output
\* still written.
C6_TranslationIffSucceeded ==
    /\ \A f \in 1..Len(menus) :
          /\ requests[f] <= 1
          /\ status[f] \in {"written", "writefail"} => requests[f] = 1
          /\ f \in failed_requests => requests[f] = 1
    /\ pc \in {"mut", "write"} =>
          /\ j = Len(visited_pos)
          /\ \A k \in 1..j :
                /\ DictHas(RecordAt(k), "value")
                /\ DictHas(RecordAt(k), "translation") <=>
                      (i \notin failed_requests /\ k <= Len(translation_response.results))
    /\ pc = "write" => j = Len(collected_pos)

\* the first file's request failed and its output was written without any
\* translation; the second file issued its own request, which succeeded
C6_Witness ==
    /\ pc = "write"
    /\ i = 2
    /\ 1 \in failed_requests
    /\ status[1] = "written"
    /\ ~DictHas(Field(out_shop[1], "name"), "translation")
    /\ DictHas(Field(out_shop[1], "name"), "value")
    /\ requests[2] = 1
    /\ 2 \notin failed_requests
    /\ j = 3
    /\ Len(translation_response.results) = 2
    /\ DictHas(RecordAt(2), "translation")
    /\ ~DictHas(RecordAt(3), "translation")

\* the code points of "（）、"
ParensIdeographicComma == <<65288, 65289, 12289>>

\* a character that survives the projection and the trimming
Survives(c) == c > 127 /\ c \notin {8216, 65288, 65289, 65292} /\ ~IsSpace(c) /\ c # 128

\* C7 as stated: the Record of "（）、" has no pinyin field, and a Record has
\* one exactly when its trimmed projection is not empty.
C7_Original ==
    InMutation =>
        \A k \in 1..Len(visited_pos) :
            LET value == Field(RecordAt(k), "value").s
            IN /\ value = ParensIdeographicComma => ~DictHas(RecordAt(k), "pinyin")
               /\ DictHas(RecordAt(k), "pinyin") <=> \E m \in 1..Len(value) : Survives(value[m])

\* C7 as amended: U+3001 is not on the allow-list, so the projection of
\* "（）、" is "、" and the Record has a pinyin field; the projection holds no
\* ASCII and no allow-listed character, and a Record has a pinyin field
\* exactly when its trimmed projection is not empty.
C7_PinyinProjection ==
    InMutation =>
        \A k \in 1..Len(visited_pos) :
            LET value == Field(RecordAt(k), "value").s
            IN /\ value = ParensIdeographicComma =>
                     /\ PinyinProjection(Field(RecordAt(k), "value")) = <<12289>>
                     /\ DictHas(RecordAt(k), "pinyin")
               /\ \A m \in 1..Len(strip_ascii(value)) :
                     /\ strip_ascii(value)[m] > 127
                     /\ strip_ascii(value)[m] \notin {8216, 65288, 65289, 65292}
               /\ DictHas(RecordAt(k), "pinyin") <=> \E m \in 1..Len(value) : Survives(value[m])

\* the Record of "（）、" has a pinyin field, the Record of "　（" has none
C7_Witness ==
    /\ pc = "write"
    /\ \E k \in 1..Len(visited_pos) :
          /\ Field(RecordAt(k), "value").s = ParensIdeographicComma
          /\ DictHas(RecordAt(k), "pinyin")
    /\ \E k \in 1..Len(visited_pos) :
          /\ Field(RecordAt(k), "value").s = <<12288, 65288>>
          /\ ~DictHas(RecordAt(k), "pinyin")

\* the result of the lookup a step has just made
LookupResult(lookup, search, img_search) == IF lookup = "kno" THEN search ELSE img_search

OrdinaryFailure(o) ==
    /\ ~SessionInvalidRaised(o.get, o.finds)
    /\ o.get = "error" \/ \E k \in 1..Len(o.finds) : o.finds[k] = "error"

\* a step of a retry loop as C2 wants it
RetryStep ==
    pc \in {"kno", "img"} =>
        IF LookupResult(pc, google_search', google_img_search').isNone
        THEN driver' = driver + 1 /\ pc' = pc
        ELSE pc' # pc

\* C2 as stated: whenever either lookup signals null, the Driver creates one
\* fresh session and retries that lookup, and it leaves a retry loop only
\* with a non-null result.
C2_FreshSessionBeforeRetry == [][RetryStep]_vars

\* a lookup that failed for ordinary reasons ends its retry loop at once and
\* keeps the session
OrdinaryFailureStep ==
    (pc \in {"kno", "img"} /\ OrdinaryFailure(page_outcome')) =>
        /\ ~LookupResult(pc, google_search', google_img_search').isNone
        /\ driver' = driver
        /\ pc' # pc

\* a field is attached exactly when its lookup's result is not empty
AttachStep ==
    pc = "attach" =>
        LET rec == Get(menu_json', Append(vkc.path, vkc.pos))
        IN /\ DictHas(rec, "knowledge_graph") <=> google_search.results # <<>>
           /\ DictHas(rec, "google_image") <=> google_img_search.results # <<>>

\* C3: a lookup that fails without any session-invalid signal returns a
\* non-null result, the Driver leaves the retry loop after that attempt with
\* the session it had, and a field is attached exactly when its result is
\* not empty.
C3_NoRetryOnOrdinaryFailure == [][OrdinaryFailureStep /\ AttachStep]_vars

\* both lookups of a priced item failed with ordinary errors only: the item's
\* Record has neither field, and the first session is still in use
C3_Witness ==
    /\ pc = "mut"
    /\ driver = 1
    /\ deaths = 0
    /\ \E k \in 1..Len(visited_pos) :
          /\ DictHas(Get(menu_json, SubSeq(visited_pos[k], 1, Len(visited_pos[k]) - 1)), "price")
          /\ DictHas(RecordAt(k), "value")
          /\ ~DictHas(RecordAt(k), "knowledge_graph")
          /\ ~DictHas(RecordAt(k), "google_image")

\* C8 as stated: a lookup during which the session raised its session-invalid
\* signal, at driver.get or at find_element, has returned null.
C8_InvalidSessionGivesNull ==
    /\ (page_outcome.lookup = "kno" /\ SessionInvalidRaised(page_outcome.get, page_outcome.finds))
          => google_search.isNone
    /\ (page_outcome.lookup = "img" /\ SessionInvalidRaised(page_outcome.get, page_outcome.finds))
          => google_img_search.isNone

Failed(f) == status[f] \in {"parsefail", "writefail"}

\* C5 as stated: when one file fails to parse or to be written, every other
\* file has been processed and written by the end of the run.
C5_Original ==
    Terminal =>
        \A f \in 1..Len(menus) :
            (Failed(f) /\ \A g \in 1..Len(menus) : g # f => ~Failed(g))
                => \A g \in 1..Len(menus) : g # f => status[g] = "written"

\* C5 as amended: a failed write stops nothing, every file is still processed
\* and its write attempted; a file that fails to parse ends the run: the
\* files before it have been processed, no file after it is ever taken.
C5_ContinueAfterWriteFailure ==
    /\ \A f \in 1..Len(menus) :
          /\ status[f] = "parsefail" =>
                /\ pc = "crashed"
                /\ i = f
                /\ \A g \in 1..(f - 1) : status[g] \in {"written", "writefail"}
                /\ \A g \in (f + 1)..Len(menus) : status[g] = "pending" /\ requests[g] = 0
          /\ (status[f] = "writefail" /\ f < Len(menus) /\ pc # "load") =>
                status[f + 1] # "pending"
    /\ (Terminal /\ \A f \in 1..Len(menus) : status[f] # "parsefail") =>
          \A f \in 1..Len(menus) : status[f] \in {"written", "writefail"}

\* the run has ended, the first file's write failed, the second was written
C5_Witness ==
    /\ pc = "done"
    /\ Len(menus) = 2
    /\ status[1] = "writefail"
    /\ status[2] = "written"

\* C9 as stated, at the end of a run: when every file parses, the run ends
\* with index.json attempted once and the browser session released.
C9_EndsWithIndexAndRelease ==
    (AllParse /\ Terminal) => (pc = "done" /\ index_attempts = 1 /\ driver_closed)

\* the id of a file's shop_info as loaded
LoadedId(f) == DictGet(ShopInfoOf(menus[f]), "id")

\* C10: each entry of index.json is the shop_info of the last file with that
\* id as it stands in that file's processed document, under the id as loaded.
C10_IndexHoldsProcessedShopInfo ==
    index_json.written =>
        /\ \A f \in 1..Len(menus) :
              \E k \in 1..Len(index_json.entries) : index_json.entries[k].id = LoadedId(f)
        /\ \A a, b \in 1..Len(index_json.entries) :
              a # b => index_json.entries[a].id # index_json.entries[b].id
        /\ \A k \in 1..Len(index_json.entries) :
              \E f \in 1..Len(menus) :
                 /\ LoadedId(f) = index_json.entries[k].id
                 /\ \A g \in (f + 1)..Len(menus) : LoadedId(g) # LoadedId(f)
                 /\ index_json.entries[k].val = out_shop[f]
                 /\ traverse_json(ShopInfoOf(menus[f])) # <<>> =>
                       index_json.entries[k].val # ShopInfoOf(menus[f])

\* two menus share a shop id; the one entry written is the second's
\* shop_info, whose name and whose id are Records or as loaded
C10_Witness ==
    /\ index_json.written
    /\ Len(menus) = 2
    /\ LoadedId(1) = LoadedId(2)
    /\ out_shop[1] # out_shop[2]
    /\ Len(index_json.entries) = 1
    /\ index_json.entries[1].val = out_shop[2]
    /\ DictHas(Field(index_json.entries[1].val, "name"), "translation")

====
